---- MODULE Spec2Model ----
(***************************************************************************)
(* Piloting Prompt Pro: the two-stage prompt refinement (intent analysis,  *)
(* prompt synthesis), the extraction of a JSON payload from the model's    *)
(* response text, and the Streamlit session that drives them turn by turn. *)
(*                                                                         *)
(* A text is a sequence of lexemes (each lexeme is a non-empty substring   *)
(* that the code never splits).  Python values are tagged records          *)
(* [k |-> kind, v |-> value]; a dict is a sequence of <<key, value>> pairs *)
(* in insertion order.                                                     *)
(***************************************************************************)
EXTENDS Integers, Sequences, FiniteSets, TLC

\* ------------------------------------------------------------------------
\* Lexemes
\* ------------------------------------------------------------------------
FENCE == "<fence>"      \* three backticks
JSONLABEL == "json"
NL == "\n"
SP == " "
QUOTE == "\""
ESCNL == "\\n"
COLON == ":"
COMMA == ","

Whitespace == {NL, SP}

\* lexemes whose lower-cased characters contain the phrase
HasOptimizedPrompt == {"Optimized Prompt", "Here's your optimized prompt"}
HasExplanation == {"explanation", "Explanation", "**Explanation**"}
HasWhyThisWorks == {"Why this works"}
HasSystemError == {"(Note: A system error occurred while processing)",
                   "(Note: A system error occurred, but this isn't your fault)"}
HasNotYourFault == {"(Note: A system error occurred, but this isn't your fault)"}

\* ------------------------------------------------------------------------
\* Python values
\* ------------------------------------------------------------------------
PyStr(s) == [k |-> "str", v |-> s]
PyBool(b) == [k |-> "bool", v |-> b]
PyNum(n) == [k |-> "num", v |-> n]
PyList(items) == [k |-> "list", v |-> items]
PyDict(pairs) == [k |-> "dict", v |-> pairs]
PyNone == [k |-> "None", v |-> 0]

\* bool(value)
Truthy(x) ==
    CASE x.k = "bool" -> x.v
      [] x.k = "num" -> x.v # 0
      [] x.k = "None" -> FALSE
      [] OTHER -> x.v # <<>>

\* key in d, for a sequence of pairs
HasKey(pairs, key) == \E i \in 1..Len(pairs) : pairs[i][1] = key

\* d.get(key, default)
DictGet(pairs, key, default) ==
    IF HasKey(pairs, key)
    THEN pairs[CHOOSE i \in 1..Len(pairs) : pairs[i][1] = key][2]
    ELSE default

\* d[key] = value: replaces in place, else appends
DictSet(pairs, key, value) ==
    IF HasKey(pairs, key)
    THEN [i \in 1..Len(pairs) |->
             IF pairs[i][1] = key THEN <<key, value>> ELSE pairs[i]]
    ELSE Append(pairs, <<key, value>>)

\* ------------------------------------------------------------------------
\* str operations (positions are 0-based, as in Python)
\* ------------------------------------------------------------------------
\* text[a:b]
Slice(text, a, b) == SubSeq(text, a + 1, b)

\* text.find(pat, start)
Find(text, pat, start) ==
    LET hits == {i \in start..(Len(text) - Len(pat)) :
                    Slice(text, i, i + Len(pat)) = pat}
    IN IF hits = {} THEN -1
       ELSE CHOOSE i \in hits : \A j \in hits : i <= j

\* pat in text
Contains(text, pat) == Find(text, pat, 0) # -1

\* text.strip()
Strip(text) ==
    LET keep == {i \in 1..Len(text) : text[i] \notin Whitespace}
    IN IF keep = {} THEN <<>>
       ELSE LET lo == CHOOSE i \in keep : \A j \in keep : i <= j
                hi == CHOOSE i \in keep : \A j \in keep : j <= i
            IN SubSeq(text, lo, hi)

\* some lexeme of the text contains the (lower-cased) phrase
ContainsPhrase(text, lexemes) == \E i \in 1..Len(text) : text[i] \in lexemes

\* text.split("\n")
RECURSIVE SplitLines(_)
SplitLines(text) ==
    LET nls == {i \in 1..Len(text) : text[i] = NL}
    IN IF nls = {} THEN <<text>>
       ELSE LET i == CHOOSE x \in nls : \A y \in nls : x <= y
            IN <<SubSeq(text, 1, i - 1)>> \o SplitLines(SubSeq(text, i + 1, Len(text)))

\* sep.join(parts)
RECURSIVE Join(_, _)
Join(parts, sep) ==
    IF parts = <<>> THEN <<>>
    ELSE IF Len(parts) = 1 THEN parts[1]
    ELSE parts[1] \o sep \o Join(Tail(parts), sep)

\* ------------------------------------------------------------------------
\* json.loads
\* ------------------------------------------------------------------------
JSONDecodeError == [k |-> "JSONDecodeError", v |-> 0]
ParseFail == [ok |-> FALSE, val |-> PyNone, next |-> 0]
ParseOk(val, next) == [ok |-> TRUE, val |-> val, next |-> next]

\* first position >= i that is not whitespace (Len+1 when none)
SkipWs(t, i) ==
    LET rest == {j \in i..Len(t) : t[j] \notin Whitespace}
    IN IF rest = {} THEN Len(t) + 1
       ELSE CHOOSE j \in rest : \A x \in rest : j <= x

\* the escape \n decodes to a newline
Unescape(chars) == [i \in 1..Len(chars) |-> IF chars[i] = ESCNL THEN NL ELSE chars[i]]

\* a string literal opening at t[i]; a raw newline inside it is a control
\* character, which the strict decoder rejects
ParseString(t, i) ==
    LET closers == {j \in (i + 1)..Len(t) : t[j] = QUOTE}
    IN IF closers = {} THEN ParseFail
       ELSE LET j == CHOOSE x \in closers : \A y \in closers : x <= y
                chars == SubSeq(t, i + 1, j - 1)
            IN IF \E n \in 1..Len(chars) : chars[n] = NL
               THEN ParseFail
               ELSE ParseOk(PyStr(Unescape(chars)), j + 1)

RECURSIVE ParseValue(_, _)
RECURSIVE ParseItems(_, _, _)
RECURSIVE ParseMembers(_, _, _)

\* after "[" or ",": one value, then "," or "]"
ParseItems(t, i, acc) ==
    LET r == ParseValue(t, i)
    IN IF ~r.ok THEN ParseFail
       ELSE LET j == SkipWs(t, r.next)
            IN IF j > Len(t) THEN ParseFail
               ELSE IF t[j] = "]" THEN ParseOk(PyList(Append(acc, r.val)), j + 1)
               ELSE IF t[j] = COMMA THEN ParseItems(t, j + 1, Append(acc, r.val))
               ELSE ParseFail

\* after "{" or ",": "key" : value, then "," or "}"
ParseMembers(t, i, acc) ==
    LET a == SkipWs(t, i)
    IN IF a > Len(t) \/ t[a] # QUOTE THEN ParseFail
       ELSE LET key == ParseString(t, a)
            IN IF ~key.ok THEN ParseFail
               ELSE LET c == SkipWs(t, key.next)
                    IN IF c > Len(t) \/ t[c] # COLON THEN ParseFail
                       ELSE LET r == ParseValue(t, c + 1)
                            IN IF ~r.ok THEN ParseFail
                               ELSE LET j == SkipWs(t, r.next)
                                        acc2 == DictSet(acc, key.val.v, r.val)
                                    IN IF j > Len(t) THEN ParseFail
                                       ELSE IF t[j] = "}" THEN ParseOk(PyDict(acc2), j + 1)
                                       ELSE IF t[j] = COMMA THEN ParseMembers(t, j + 1, acc2)
                                       ELSE ParseFail

ParseValue(t, i) ==
    LET a == SkipWs(t, i)
    IN IF a > Len(t) THEN ParseFail
       ELSE CASE t[a] = QUOTE -> ParseString(t, a)
              [] t[a] = "true" -> ParseOk(PyBool(TRUE), a + 1)
              [] t[a] = "false" -> ParseOk(PyBool(FALSE), a + 1)
              [] t[a] = "null" -> ParseOk(PyNone, a + 1)
              [] t[a] = "0" -> ParseOk(PyNum(0), a + 1)
              [] t[a] = "1" -> ParseOk(PyNum(1), a + 1)
              [] t[a] = "[" ->
                    LET b == SkipWs(t, a + 1)
                    IN IF b <= Len(t) /\ t[b] = "]"
                       THEN ParseOk(PyList(<<>>), b + 1)
                       ELSE ParseItems(t, a + 1, <<>>)
              [] t[a] = "{" ->
                    LET b == SkipWs(t, a + 1)
                    IN IF b <= Len(t) /\ t[b] = "}"
                       THEN ParseOk(PyDict(<<>>), b + 1)
                       ELSE ParseMembers(t, a + 1, <<>>)
              [] OTHER -> ParseFail

\* json.loads(text): one value, whitespace allowed around it, nothing else
json_loads(text) ==
    LET r == ParseValue(text, 1)
    IN IF r.ok /\ SkipWs(text, r.next) > Len(text) THEN r.val ELSE JSONDecodeError

\* ------------------------------------------------------------------------
\* str(value), as an f-string formats it
\* ------------------------------------------------------------------------
RECURSIVE PyRepr(_)
RECURSIVE ReprItems(_)
ReprItems(items) ==
    IF items = <<>> THEN <<>>
    ELSE IF Len(items) = 1 THEN PyRepr(items[1])
    ELSE PyRepr(items[1]) \o <<COMMA, SP>> \o ReprItems(Tail(items))

PyRepr(x) ==
    CASE x.k = "str" -> <<"'">> \o x.v \o <<"'">>
      [] x.k = "bool" -> IF x.v THEN <<"True">> ELSE <<"False">>
      [] x.k = "num" -> IF x.v = 0 THEN <<"0">> ELSE <<"1">>
      [] x.k = "None" -> <<"None">>
      [] x.k = "list" -> <<"[">> \o ReprItems(x.v) \o <<"]">>
      [] x.k = "dict" ->
            <<"{">> \o ReprItems([i \in 1..Len(x.v) |-> PyStr(x.v[i][1])]) \o <<"}">>

PyFormat(x) == IF x.k = "str" THEN x.v ELSE PyRepr(x)

\* ------------------------------------------------------------------------
\* The text-generation service, as the three methods see its response
\* ------------------------------------------------------------------------
ServiceError == [kind |-> "error", text |-> <<>>]     \* invoke_model or the decoding raises
NoTextContent == [kind |-> "notext", text |-> <<>>]   \* no content[0]['text']
TextResponse(t) == [kind |-> "text", text |-> t]
NoResponse == [kind |-> "none", text |-> <<>>]        \* no request was issued

KeyNeeds == <<"needs_clarification">>
KeyQuestions == <<"clarification_questions">>
KeyUnderstanding == <<"understanding">>
KeyPrompt == <<"optimized_prompt">>
KeyExplanation == <<"explanation">>

\* a default that asks for clarification instead of letting the user through
DefaultIntent_asks(understanding) ==
    PyDict(<< <<KeyNeeds, PyBool(TRUE)>>,
              <<KeyQuestions, PyList(<<>>)>>,
              <<KeyUnderstanding, PyStr(understanding)>> >>)

DefaultIntent(understanding) ==
    PyDict(<< <<KeyNeeds, PyBool(FALSE)>>,
              <<KeyQuestions, PyList(<<>>)>>,
              <<KeyUnderstanding, PyStr(understanding)>> >>)

\* analyze_intent, given the response of its one request
analyze_intent(resp) ==
    IF resp.kind = "error" THEN DefaultIntent(<<"Error during analysis">>)
    ELSE IF resp.kind = "notext" THEN DefaultIntent(<<"Unable to analyze intent">>)
    ELSE LET parsed == json_loads(resp.text)
         IN IF parsed = JSONDecodeError
            THEN DefaultIntent(<<"Unable to parse understanding">>)
            ELSE parsed

\* the three hardcoded payloads of generate_optimized_prompt
GenericFallback ==
    PyDict(<< <<KeyPrompt, PyStr(<<"I've created a prompt to help you make a Streamlit page for your resume.">>)>>,
              <<KeyExplanation, PyStr(<<"This prompt specifies the core objective (Streamlit resume page)">>)>> >>)
NoTextFallback ==
    PyDict(<< <<KeyPrompt, PyStr(<<"Create a Streamlit web application that presents a professional resume.">>)>>,
              <<KeyExplanation, PyStr(<<"This prompt addresses your need for a Streamlit resume page.", SP,
                                        "(Note: A system error occurred while processing)">>)>> >>)
ExceptionFallback ==
    PyDict(<< <<KeyPrompt, PyStr(<<"Create a professional-looking application with a clean, modern interface">>)>>,
              <<KeyExplanation, PyStr(<<"I've created this prompt based on your request.", SP,
                                        "(Note: A system error occurred, but this isn't your fault)">>)>> >>)

\* lengths, in lexemes, of the two fence markers the code skips over
LenFenceJson == 2
LenFence == 1

\* lines 199-217: the fenced-block checks, then the verbatim parse
extract_json(response_text) ==
    LET s1 == Find(response_text, <<FENCE, JSONLABEL>>, 0) + LenFenceJson
        e1 == Find(response_text, <<FENCE>>, s1)
        s2 == Find(response_text, <<FENCE>>, 0) + LenFence
        e2 == Find(response_text, <<FENCE>>, s2)
    IN IF Contains(response_text, <<FENCE, JSONLABEL>>) /\ s1 > LenFenceJson /\ e1 > s1
       THEN json_loads(Strip(Slice(response_text, s1, e1)))
       ELSE IF Contains(response_text, <<FENCE>>) /\ s2 > LenFence /\ e2 > s2
       THEN json_loads(Strip(Slice(response_text, s2, e2)))
       ELSE json_loads(response_text)

\* lines 230-239: the loop over the lines
RECURSIVE ScanLines(_, _, _, _)
ScanLines(lines, optimized_prompt, capture, explanation) ==
    IF lines = <<>> THEN [optimized_prompt |-> optimized_prompt, explanation |-> explanation]
    ELSE LET line == Head(lines)
         IN IF ContainsPhrase(line, HasOptimizedPrompt) /\ ~capture
            THEN ScanLines(Tail(lines), optimized_prompt, TRUE, explanation)
            ELSE IF (ContainsPhrase(line, HasExplanation) \/ ContainsPhrase(line, HasWhyThisWorks))
                    /\ capture
            THEN [optimized_prompt |-> optimized_prompt,
                  explanation |->
                      IF Contains(line, <<COLON>>)
                      THEN Strip(Slice(line, Find(line, <<COLON>>, 0) + 1, Len(line)))
                      ELSE Strip(line)]
            ELSE IF capture
            THEN ScanLines(Tail(lines), optimized_prompt \o line \o <<NL>>, capture, explanation)
            ELSE ScanLines(Tail(lines), optimized_prompt, capture, explanation)

\* lines 219-251: what the JSONDecodeError handler returns
extract_heuristic(response_text) ==
    LET scan == ScanLines(SplitLines(response_text), <<>>, FALSE,
                          <<"Extracted from non-JSON response">>)
    IN IF ContainsPhrase(response_text, HasOptimizedPrompt) /\ scan.optimized_prompt # <<>>
       THEN PyDict(<< <<KeyPrompt, PyStr(Strip(scan.optimized_prompt))>>,
                      <<KeyExplanation, PyStr(scan.explanation)>> >>)
       ELSE GenericFallback

\* lines 195-251: the payload recovered from a response text
extract_payload(response_text) ==
    LET parsed == extract_json(response_text)
    IN IF parsed = JSONDecodeError THEN extract_heuristic(response_text) ELSE parsed

\* generate_optimized_prompt, given the response of its one request
generate_optimized_prompt(resp) ==
    IF resp.kind = "error" THEN ExceptionFallback
    ELSE IF resp.kind = "notext" THEN NoTextFallback
    ELSE extract_payload(resp.text)

\* lines 163-170: the user content of the synthesis request
RECURSIVE ClarificationLines(_)
ClarificationLines(pairs) ==
    IF pairs = <<>> THEN <<>>
    ELSE <<"Question", COLON, SP>> \o PyFormat(pairs[1][1]) \o <<NL, "Answer", COLON, SP>> \o pairs[1][2]
         \o <<NL, NL>> \o ClarificationLines(Tail(pairs))

user_message_of(user_goal, clarifications) ==
    <<"User's original request", COLON, SP>> \o user_goal \o <<NL, NL>>
    \o (IF clarifications # <<>>
        THEN <<"Additional clarifications", COLON, NL>> \o ClarificationLines(clarifications)
        ELSE <<>>)
    \o <<NL, "Create an optimized prompt based on this information.">>

\* missing content handed back as an empty text instead of None
execute_prompt_emptyText(resp) ==
    IF resp.kind = "error" THEN PyNone ELSE PyStr(resp.text)

\* execute_prompt, given the response of its one request
execute_prompt(resp) ==
    IF resp.kind = "text" THEN PyStr(resp.text) ELSE PyNone

\* ------------------------------------------------------------------------
\* Inputs: what the user types and what the service answers
\* ------------------------------------------------------------------------
JStr(s) == <<QUOTE>> \o [i \in 1..Len(s) |-> IF s[i] = NL THEN ESCNL ELSE s[i]] \o <<QUOTE>>
JList(items) == <<"[">> \o Join(items, <<COMMA, SP>>) \o <<"]">>
JObj(members) ==
    <<"{">> \o Join([i \in 1..Len(members) |->
                        JStr(members[i][1]) \o <<COLON, SP>> \o members[i][2]],
                    <<COMMA, SP>>) \o <<"}">>

Goal == <<"Write a poem">>
Answer == <<"autumn">>
UserTexts == {Goal, Answer}

Q1 == <<"About what topic?">>
Q2 == <<"What tone?">>
Understanding == <<"The user wants a poem">>

IntentJson(needs, questions) ==
    JObj(<< <<KeyNeeds, <<needs>>>>,
            <<KeyQuestions, JList([i \in 1..Len(questions) |-> JStr(questions[i])])>>,
            <<KeyUnderstanding, JStr(Understanding)>> >>)

Prose == <<"Sure!", SP, "Here you go", COLON>>

IntentTexts ==
    { IntentJson("true", <<Q1>>),                       \* one question
      IntentJson("true", <<Q1, Q2>>),                   \* two questions
      IntentJson("true", <<>>),                         \* asks, but no question
      JObj(<< <<KeyNeeds, <<"true">>>> >>),             \* asks, question list missing
      IntentJson("false", <<>>),                        \* does not ask
      JObj(<<>>),                                       \* none of the fields
      JList(<<JStr(Q1)>>),                              \* a list, not an object
      Prose,                                            \* not JSON
      <<FENCE, JSONLABEL, NL>> \o IntentJson("true", <<Q1>>) \o <<NL, FENCE>>,
      Prose \o <<NL, FENCE, NL>> \o IntentJson("true", <<Q1>>) \o <<NL, FENCE>> }

IntentResponses ==
    {ServiceError, NoTextContent} \cup {TextResponse(t) : t \in IntentTexts}
    \cup {TextResponse(IntentJson("true", <<Q2, Q1>>))}

P1 == <<"Write a poem about", SP, "autumn">>
PFenced == <<"Answer in", SP, FENCE, "haiku", FENCE, SP, "form">>
E1 == <<"Names the topic">>

SynthJson(prompt, explanation) ==
    JObj(<< <<KeyPrompt, JStr(prompt)>>, <<KeyExplanation, JStr(explanation)>> >>)

SynthTexts ==
    { SynthJson(P1, E1),                                \* the payload verbatim
      SynthJson(PFenced, E1),                           \* fences inside the prompt
      JObj(<<>>),                                       \* none of the fields
      JList(<<JStr(P1)>>),                              \* a list, not an object
      Prose,                                            \* not JSON
      <<FENCE, JSONLABEL, NL>> \o SynthJson(P1, E1) \o <<NL, FENCE>> }

SynthResponses == {ServiceError, NoTextContent} \cup {TextResponse(t) : t \in SynthTexts}

ExecResponses == {ServiceError, NoTextContent, TextResponse(<<>>),
                  TextResponse(<<"Leaves fall", NL, "softly">>)}

\* the two refinement stages on every response the service may give
\* (evaluated once)
AnalyzeTable == [r \in IntentResponses |-> analyze_intent(r)]
SynthesizeTable == [r \in SynthResponses |-> generate_optimized_prompt(r)]

\* ------------------------------------------------------------------------
\* process_input
\* ------------------------------------------------------------------------
\* one outbound request: the stage, its arguments and the user content sent
IntentCall(user_input) ==
    [stage |-> "intent", goal |-> user_input, clarifications |-> <<>>,
     content |-> user_input]
OptimizeCall(user_goal, clarifications) ==
    [stage |-> "optimize", goal |-> user_goal, clarifications |-> clarifications,
     content |-> user_message_of(user_goal, clarifications)]
ExecuteCall(prompt) ==
    [stage |-> "execute", goal |-> prompt, clarifications |-> <<>>, content |-> prompt]

\* iterating a value in a comprehension; not ok (TypeError) when it is not iterable
Iterate(x) ==
    CASE x.k = "list" -> [ok |-> TRUE, items |-> x.v]
      [] x.k = "str" -> [ok |-> TRUE, items |-> [i \in 1..Len(x.v) |-> PyStr(<<x.v[i]>>)]]
      [] x.k = "dict" -> [ok |-> TRUE, items |-> [i \in 1..Len(x.v) |-> PyStr(x.v[i][1])]]
      [] OTHER -> [ok |-> FALSE, items |-> <<>>]

ClarificationHeader == <<"To optimize your prompt, I need a bit more information", COLON>>
\* only the first question is listed
ClarificationMessage_firstOnly(questions) ==
    ClarificationHeader \o <<NL, NL>>
    \o (IF questions = <<>> THEN <<>> ELSE <<"- ">> \o PyFormat(questions[1]))

\* lines 327-328
ClarificationMessage(questions) ==
    ClarificationHeader \o <<NL, NL>>
    \o Join([i \in 1..Len(questions) |-> <<"- ">> \o PyFormat(questions[i])], <<NL>>)

\* lines 337-338 and 347-348
OptimizedHeader == <<"Here's your optimized prompt", COLON>>
OptimizedMessage(result) ==
    OptimizedHeader \o <<NL, NL, FENCE, NL>>
    \o PyFormat(DictGet(result.v, KeyPrompt, PyStr(<<"Error generating prompt">>)))
    \o <<NL, FENCE, NL, NL, "**Explanation**", COLON, SP>>
    \o PyFormat(DictGet(result.v, KeyExplanation, PyStr(<<"No explanation available">>)))

Raised(calls) ==
    [raised |-> TRUE, response |-> <<>>, intent_analysis |-> PyDict(<<>>),
     needs_clarification |-> FALSE, calls |-> calls]
Returned(response, intent_analysis, needs_clarification, calls) ==
    [raised |-> FALSE, response |-> response, intent_analysis |-> intent_analysis,
     needs_clarification |-> needs_clarification, calls |-> calls]

\* lines 336-341 and 346-351: the composed message; .get on a value that is
\* not a dict raises AttributeError
Compose(optimization_result, intent_analysis, calls) ==
    IF optimization_result.k # "dict" THEN Raised(calls)
    ELSE Returned(OptimizedMessage(optimization_result), intent_analysis, FALSE, calls)

\* a synthesis request that is sent a second time
SynthesizeAndCompose_retries(user_input, clarifications, intent_analysis, calls, rs) ==
    Compose(SynthesizeTable[rs], intent_analysis,
            calls \o <<OptimizeCall(user_input, clarifications),
                       OptimizeCall(user_input, clarifications)>>)

\* lines 334 and 344: the synthesis call, then the composed message
SynthesizeAndCompose(user_input, clarifications, intent_analysis, calls, rs) ==
    Compose(SynthesizeTable[rs], intent_analysis,
            Append(calls, OptimizeCall(user_input, clarifications)))

\* lines 324-341: what follows the analysis of a turn without clarifications
AfterAnalysis(user_input, intent_analysis, calls, rs) ==
    IF intent_analysis.k # "dict" THEN Raised(calls)
    ELSE IF Truthy(DictGet(intent_analysis.v, KeyNeeds, PyBool(FALSE)))
    THEN LET qs == Iterate(DictGet(intent_analysis.v, KeyQuestions, PyList(<<>>)))
         IN IF ~qs.ok THEN Raised(calls)
            ELSE Returned(ClarificationMessage(qs.items), intent_analysis, TRUE, calls)
    ELSE SynthesizeAndCompose(user_input, <<>>, intent_analysis, calls, rs)

\* process_input(user_input, clarifications); ri and rs are the responses the
\* service gives to the intent request and to the synthesis request
process_input(user_input, clarifications, ri, rs) ==
    IF clarifications = <<>>
    THEN AfterAnalysis(user_input, AnalyzeTable[ri], <<IntentCall(user_input)>>, rs)
    ELSE SynthesizeAndCompose(user_input, clarifications, PyDict(<<>>), <<>>, rs)

\* ------------------------------------------------------------------------
\* The Streamlit session (app.py)
\* ------------------------------------------------------------------------
VARIABLES
    messages,                   \* st.session_state.messages
    awaiting_clarification,     \* st.session_state.awaiting_clarification
    original_request,           \* st.session_state.original_request
    intent_analysis,            \* st.session_state.intent_analysis
    clarification_responses,    \* st.session_state.clarification_responses
    last_optimized_prompt,      \* st.session_state.last_optimized_prompt
    show_execute_button,        \* st.session_state.show_execute_button
    last,                       \* what the handler that ran last did
    outcomes,                   \* which service outcomes this conversation may meet
    raw,                        \* a response text given to the extraction
    payload                     \* the payload the extraction recovered from raw

session == <<messages, awaiting_clarification, original_request, intent_analysis,
             clarification_responses, last_optimized_prompt, show_execute_button>>
vars == <<messages, awaiting_clarification, original_request, intent_analysis,
          clarification_responses, last_optimized_prompt, show_execute_button,
          last, outcomes, raw, payload>>

Message(role, content) == [role |-> role, content |-> content]

\* the record of one handler run: the state it started in, its input, the
\* requests it issued and what process_input / execute_prompt gave back
NoHandler ==
    [op |-> "none", awaiting0 |-> FALSE, input |-> <<>>, ri |-> NoResponse,
     rs |-> NoResponse, raised |-> FALSE, response |-> <<>>,
     intent_analysis |-> PyDict(<<>>), needs_clarification |-> FALSE,
     calls |-> <<>>, request0 |-> <<>>, clarifications0 |-> <<>>,
     analysis0 |-> PyDict(<<>>), result |-> PyNone, appended |-> <<>>]

\* the answer stored under the last question asked
FirstQuestion_last(questions) ==
    CASE questions.k = "list" ->
            [ok |-> TRUE, key |-> questions.v[Len(questions.v)]]
      [] OTHER -> [ok |-> FALSE, key |-> PyNone]

\* lines 70-72: the key the answer is stored under; not ok when questions[0]
\* raises or the key is unhashable
FirstQuestion(questions) ==
    CASE questions.k = "list" ->
            [ok |-> questions.v[1].k \in {"str", "num", "bool", "None"}, key |-> questions.v[1]]
      [] questions.k = "str" -> [ok |-> TRUE, key |-> PyStr(<<questions.v[1]>>)]
      [] OTHER -> [ok |-> FALSE, key |-> PyNone]

\* lines 89-93: the prompt cut out of the composed message
ExtractPrompt(response) ==
    LET prompt_start == Find(response, <<FENCE>>, 0) + LenFence
        prompt_end == Find(response, <<FENCE>>, prompt_start)
    IN [found |-> Contains(response, <<FENCE>>) /\ prompt_start > LenFence
                  /\ prompt_end > prompt_start,
        prompt |-> Strip(Slice(response, prompt_start, prompt_end))]

\* lines 97-99
WarningMarker == "<warning> "
Decorate(response) ==
    IF ContainsPhrase(response, HasSystemError) \/ ContainsPhrase(response, HasNotYourFault)
    THEN <<WarningMarker>> \o response
    ELSE response

\* a new request that keeps the answers of the previous round
ClarificationState_keepsAnswers(user_message) ==
    IF ~awaiting_clarification
    THEN [original_request |-> user_message,
          clarification_responses |-> clarification_responses]
    ELSE [original_request |-> original_request,
          clarification_responses |-> clarification_responses]

\* lines 57-60: "clear any previous clarification state if this is a new request"
ClarificationState(user_message) ==
    IF ~awaiting_clarification
    THEN [original_request |-> user_message, clarification_responses |-> <<>>]
    ELSE [original_request |-> original_request,
          clarification_responses |-> clarification_responses]

\* the record of a handled turn: r is what process_input did
TurnRecord(user_message, r, out, ri, rs) ==
    [NoHandler EXCEPT !.op = "message", !.awaiting0 = awaiting_clarification,
        !.input = user_message,
        !.ri = IF \E i \in 1..Len(r.calls) : r.calls[i].stage = "intent"
               THEN ri ELSE NoResponse,
        !.rs = IF \E i \in 1..Len(r.calls) : r.calls[i].stage = "optimize"
               THEN rs ELSE NoResponse,
        !.raised = r.raised, !.response = r.response,
        !.intent_analysis = r.intent_analysis,
        !.needs_clarification = r.needs_clarification,
        !.calls = r.calls, !.request0 = original_request,
        !.clarifications0 = clarification_responses,
        !.analysis0 = intent_analysis, !.appended = out]

\* lines 55, 75-81, 101-106: the session after process_input gave r (or raised)
AnswerOutcome(user_message, state, clar, r, ri, rs) ==
    /\ messages' = Append(messages, Message("user", user_message))
                   \o (IF r.raised THEN <<>> ELSE <<Message("assistant", r.response)>>)
    /\ clarification_responses' = clar
    /\ awaiting_clarification' = IF r.raised THEN awaiting_clarification ELSE FALSE
    /\ original_request' = state.original_request
    /\ UNCHANGED <<intent_analysis, last_optimized_prompt, show_execute_button>>
    /\ last' = TurnRecord(user_message, r,
                          IF r.raised THEN <<>> ELSE <<Message("assistant", r.response)>>,
                          ri, rs)

\* lines 70-72: the map after the answer is stored
RecordAnswer(user_message, state, questions, first) ==
    IF Truthy(questions) /\ first.ok
    THEN DictSet(state.clarification_responses, first.key, user_message)
    ELSE state.clarification_responses

\* lines 70-78: the answer is stored, then process_input is called with the map
AnswerCall(user_message, state, clar, first, ri, rs) ==
    AnswerOutcome(user_message, state, clar,
                  IF first.ok THEN process_input(state.original_request, clar, ri, rs)
                  ELSE Raised(<<>>),
                  ri, rs)

AnswerStore(user_message, state, questions, first, ri, rs) ==
    AnswerCall(user_message, state, RecordAnswer(user_message, state, questions, first),
               first, ri, rs)

AnswerQuestions(user_message, state, questions, ri, rs) ==
    AnswerStore(user_message, state, questions,
                IF Truthy(questions) THEN FirstQuestion(questions)
                ELSE [ok |-> TRUE, key |-> PyNone],
                ri, rs)

\* process_user_message in AwaitingClarification (lines 55-60, 68-81, 106)
AnswerTurn(user_message, ri, rs) ==
    AnswerQuestions(user_message, ClarificationState(user_message),
                    DictGet(intent_analysis.v, KeyQuestions, PyList(<<>>)), ri, rs)

\* lines 85-99, 106: the session after process_input gave r (or raised)
RequestOutcome(user_message, state, r, cut, out, ri, rs) ==
    /\ messages' = Append(messages, Message("user", user_message)) \o out
    /\ original_request' = state.original_request
    /\ clarification_responses' = state.clarification_responses
    /\ intent_analysis' = IF r.raised THEN intent_analysis ELSE r.intent_analysis
    /\ awaiting_clarification' =
           IF r.raised THEN awaiting_clarification ELSE r.needs_clarification
    /\ last_optimized_prompt' =
           IF ~r.raised /\ ~r.needs_clarification /\ cut.found
           THEN cut.prompt ELSE last_optimized_prompt
    /\ show_execute_button' =
           IF ~r.raised /\ ~r.needs_clarification /\ cut.found
           THEN TRUE ELSE show_execute_button
    /\ last' = TurnRecord(user_message, r, out, ri, rs)

RequestResult(user_message, state, r, ri, rs) ==
    RequestOutcome(user_message, state, r, ExtractPrompt(r.response),
                   IF r.raised THEN <<>> ELSE <<Message("assistant", Decorate(r.response))>>,
                   ri, rs)

\* process_user_message in Idle (lines 55-60, 82-99, 106)
RequestTurn(user_message, ri, rs) ==
    RequestResult(user_message, ClarificationState(user_message),
                  process_input(user_message, <<>>, ri, rs), ri, rs)

\* process_user_message(user_message)
process_user_message(user_message, ri, rs) ==
    IF awaiting_clarification
    THEN AnswerTurn(user_message, ri, rs)
    ELSE RequestTurn(user_message, ri, rs)

\* execute_optimized_prompt (lines 108-134), the on_click of the button that
\* main shows only while show_execute_button is set
ExecutionHeader == "### AI Response to Your Optimized Prompt"
execute_optimized_prompt(re) ==
    LET response == execute_prompt(re)
        out == IF Truthy(response)
               THEN <<Message("assistant", <<ExecutionHeader, NL, NL>> \o response.v)>>
               ELSE <<>>
    IN /\ messages' = messages \o out
       /\ show_execute_button' = FALSE
       /\ UNCHANGED <<awaiting_clarification, original_request, intent_analysis,
                      clarification_responses, last_optimized_prompt>>
       /\ last' = [NoHandler EXCEPT !.op = "execute",
                      !.awaiting0 = awaiting_clarification,
                      !.input = last_optimized_prompt, !.rs = re,
                      !.calls = <<ExecuteCall(last_optimized_prompt)>>,
                      !.request0 = original_request,
                      !.clarifications0 = clarification_responses,
                      !.analysis0 = intent_analysis,
                      !.result = response, !.appended = out]

\* the "Clear Chat History" button (lines 182-190)
clear_chat_history ==
    /\ messages' = <<>>
    /\ awaiting_clarification' = FALSE
    /\ original_request' = <<>>
    /\ intent_analysis' = PyDict(<<>>)
    /\ clarification_responses' = <<>>
    /\ last_optimized_prompt' = <<>>
    /\ show_execute_button' = FALSE
    /\ last' = [NoHandler EXCEPT !.op = "clear"]

\* initialize_session_state (lines 6-25)
InitSession ==
    /\ messages = <<>>
    /\ awaiting_clarification = FALSE
    /\ original_request = <<>>
    /\ intent_analysis = PyDict(<<>>)
    /\ clarification_responses = <<>>
    /\ last_optimized_prompt = <<>>
    /\ show_execute_button = FALSE
    /\ last = NoHandler

\* The transcript is the only thing that grows.  A conversation in which the
\* service may answer anything is followed until the transcript holds
\* MaxMessages entries; one in which the service always answers with a
\* well-formed payload is followed until it holds MaxMessagesWellFormed.
MaxMessages == 4
MaxMessagesWellFormed == 8

WellFormedIntentResponses ==
    {TextResponse(IntentJson("true", <<Q1>>)),
     TextResponse(IntentJson("true", <<Q2, Q1>>)),
     TextResponse(IntentJson("false", <<>>))}
WellFormedSynthResponses == {TextResponse(SynthJson(P1, E1))}
WellFormedExecResponses == {TextResponse(<<"Leaves fall", NL, "softly">>)}

IntentOutcomes == IF outcomes = "any" THEN IntentResponses ELSE WellFormedIntentResponses
SynthOutcomes == IF outcomes = "any" THEN SynthResponses ELSE WellFormedSynthResponses
ExecOutcomes == IF outcomes = "any" THEN ExecResponses ELSE WellFormedExecResponses
TranscriptBound == IF outcomes = "any" THEN MaxMessages ELSE MaxMessagesWellFormed

\* ------------------------------------------------------------------------
\* The session, one handler at a time
\* ------------------------------------------------------------------------
Init ==
    /\ InitSession
    /\ outcomes \in {"any", "well-formed"}
    /\ raw = <<>>
    /\ payload = PyNone

UserMessage ==
    /\ Len(messages) + 2 <= TranscriptBound
    /\ \E user_message \in UserTexts, ri \in IntentOutcomes, rs \in SynthOutcomes :
           process_user_message(user_message, ri, rs)
    /\ UNCHANGED <<outcomes, raw, payload>>

ExecuteClick ==
    /\ show_execute_button
    /\ Len(messages) + 1 <= TranscriptBound
    /\ \E re \in ExecOutcomes : execute_optimized_prompt(re)
    /\ UNCHANGED <<outcomes, raw, payload>>

ClearClick ==
    /\ messages # <<>>
    /\ clear_chat_history
    /\ UNCHANGED <<outcomes, raw, payload>>

Next == UserMessage \/ ExecuteClick \/ ClearClick

Spec == Init /\ [][Next]_vars

\* ------------------------------------------------------------------------
\* The extraction on its own: one response text, then the payload
\* generate_optimized_prompt recovers from it
\* ------------------------------------------------------------------------
PInnerJson == <<"Reply as", SP, FENCE, JSONLABEL, SP, "{", "}", SP, FENCE>>
PMarker == <<"An", SP, "Optimized Prompt", SP, "for poems">>
POneFence == <<"Start with", SP, FENCE>>
PTwoLines == <<"Write a poem", NL, "about autumn">>
EWhy == <<"Why this works", COLON, SP, "it is specific">>

ExtractPrompts == {P1, PFenced, PInnerJson, PMarker, POneFence, PTwoLines}
ExtractExplanations == {E1, EWhy}
ExtractBodies == {SynthJson(p, e) : p \in ExtractPrompts, e \in ExtractExplanations}
                 \cup {JObj(<<>>), JList(<<JStr(P1)>>)}

Leads == {<<>>, Prose \o <<NL>>}
Trails == {<<>>, <<NL, "Hope this helps">>}
Labeled(body) == <<FENCE, JSONLABEL, NL>> \o body \o <<NL, FENCE>>
Unlabeled(body) == <<FENCE, NL>> \o body \o <<NL, FENCE>>

ProseAnswers ==
    { Prose,
      <<"Optimized Prompt", COLON, NL>> \o P1 \o <<NL, "Explanation", COLON, SP>> \o E1,
      <<"Optimized Prompt", COLON, NL>> \o P1 \o <<NL, "Why this works">>,
      <<"Optimized Prompt", COLON, NL, NL>>,
      <<"Optimized Prompt", COLON, SP>> \o P1,
      <<>> }

ExtractTexts ==
    ExtractBodies
    \cup {lead \o Labeled(body) \o trail :
             lead \in Leads, body \in ExtractBodies, trail \in Trails}
    \cup {lead \o Unlabeled(body) \o trail :
             lead \in Leads, body \in ExtractBodies, trail \in Trails}
    \cup {body \o trail : body \in ExtractBodies, trail \in Trails}
    \cup ProseAnswers

InitExtract ==
    /\ InitSession
    /\ outcomes = "any"
    /\ raw \in ExtractTexts
    /\ payload = PyNone

Extract ==
    /\ last.op = "none"
    /\ payload' = extract_payload(raw)
    /\ last' = [NoHandler EXCEPT !.op = "extract", !.rs = TextResponse(raw)]
    /\ UNCHANGED <<session, outcomes, raw>>

NextExtract == Extract

SpecExtract == InitExtract /\ [][NextExtract]_vars

\* ------------------------------------------------------------------------
\* Properties
\* ------------------------------------------------------------------------
StartsWith(text, prefix) ==
    Len(text) >= Len(prefix) /\ SubSeq(text, 1, Len(prefix)) = prefix

CallsTo(stage) == {i \in 1..Len(last.calls) : last.calls[i].stage = stage}

\* the turn that ran last was handled in Idle / in AwaitingClarification
HandledInIdle == last.op = "message" /\ ~last.awaiting0
HandledInAwaiting == last.op = "message" /\ last.awaiting0

\* the question list of the analysis that was stored when the turn began
Questions0 == DictGet(last.analysis0.v, KeyQuestions, PyList(<<>>))

\* C1: handling a user turn never raises: whatever the service answers in
\* either stage, process_input returns its triple and the turn ends in Idle
\* or AwaitingClarification.
C1_TurnNeverRaises ==
    last.op = "message" =>
        /\ ~last.raised
        /\ last.needs_clarification \in BOOLEAN
        /\ awaiting_clarification \in BOOLEAN

\* C2: a turn handled in AwaitingClarification issues no intent request and
\* exactly one synthesis call with (originalRequest, clarificationMap),
\* returns the optimized-prompt message with an empty intent analysis, and
\* leaves the controller in Idle, whatever the stored analysis is.
C2_AnswerTurnOnlySynthesizes ==
    HandledInAwaiting =>
        /\ CallsTo("intent") = {}
        /\ last.calls = <<OptimizeCall(original_request, clarification_responses)>>
        /\ StartsWith(last.response, OptimizedHeader)
        /\ last.intent_analysis = PyDict(<<>>)
        /\ ~awaiting_clarification

\* C3: when one or two questions were asked, the answer turn records exactly
\* the entry clarificationMap[firstQuestion] = answer, the synthesis call gets
\* the request that triggered the clarification together with that one-entry
\* map, and originalRequest is unchanged by the answer turn.
C3_AnswerRecordedAgainstFirstQuestion ==
    /\ HandledInIdle => original_request = last.input
    /\ last.op = "execute" => original_request = last.request0
    /\ (HandledInAwaiting /\ Questions0.k = "list" /\ Len(Questions0.v) \in {1, 2}) =>
           /\ clarification_responses = << <<Questions0.v[1], last.input>> >>
           /\ last.calls = <<OptimizeCall(last.request0, clarification_responses)>>
           /\ original_request = last.request0

W3_TwoQuestionsAnswered ==
    /\ HandledInAwaiting
    /\ ~last.raised
    /\ Questions0.k = "list" /\ Len(Questions0.v) = 2
    /\ last.request0 # last.input
    /\ clarification_responses = << <<PyStr(Q1), last.input>> >>

\* C4: clarificationMap is emptied at the start of every turn handled in Idle
\* and loses no entry at any other time of turn handling or execution; every
\* synthesis call gets the empty map, or the map whose one entry is the
\* current answer under the first question of the stored analysis.
C4_Step ==
    /\ (last'.op = "message" /\ messages' # messages) =>
           /\ ~awaiting_clarification => clarification_responses' = <<>>
           /\ awaiting_clarification =>
                  \A i \in 1..Len(clarification_responses) :
                      HasKey(clarification_responses', clarification_responses[i][1])
           /\ \A i \in 1..Len(last'.calls) :
                  last'.calls[i].stage = "optimize" =>
                      \/ last'.calls[i].clarifications = <<>>
                      \/ /\ awaiting_clarification
                         /\ Truthy(DictGet(intent_analysis.v, KeyQuestions, PyList(<<>>)))
                         /\ last'.calls[i].clarifications =
                                << <<DictGet(intent_analysis.v, KeyQuestions, PyList(<<>>)).v[1],
                                     last'.input>> >>
    /\ (last'.op = "execute" /\ show_execute_button) =>
           clarification_responses' = clarification_responses

C4_MapResetOnlyOnNewRequest == [][C4_Step]_vars

W4_NewRequestAfterARound ==
    /\ HandledInIdle
    /\ last.clarifications0 # <<>>
    /\ clarification_responses = <<>>
    /\ CallsTo("optimize") # {}

\* C5: a turn handled in Idle whose analysis reports that no clarification is
\* needed makes exactly one synthesis call, with the user's text and an empty
\* map, returns the optimized-prompt message with needsClarification false,
\* and stays in Idle.
ReportsNoClarification(resp) ==
    LET a == analyze_intent(resp)
    IN a.k = "dict" /\ ~Truthy(DictGet(a.v, KeyNeeds, PyBool(FALSE)))

C5_DirectSynthesis ==
    (HandledInIdle /\ ReportsNoClarification(last.ri)) =>
        /\ last.calls = <<IntentCall(last.input), OptimizeCall(last.input, <<>>)>>
        /\ ~last.raised
        /\ StartsWith(last.response, OptimizedHeader)
        /\ ~StartsWith(last.response, ClarificationHeader)
        /\ ~last.needs_clarification
        /\ ~awaiting_clarification

\* C6: a turn handled in Idle whose analysis reports that clarification is
\* needed stores the analysis, makes no synthesis call, moves to
\* AwaitingClarification, and returns the header followed by one bullet per
\* question, in order, and no other bullet.
ReportsClarification(resp) ==
    LET a == analyze_intent(resp)
    IN a.k = "dict" /\ Truthy(DictGet(a.v, KeyNeeds, PyBool(FALSE)))

RECURSIVE Bullets(_)
Bullets(questions) ==
    IF questions = <<>> THEN <<>>
    ELSE <<"- ">> \o questions[1].v
         \o (IF Len(questions) > 1 THEN <<NL>> \o Bullets(Tail(questions)) ELSE <<>>)

C6_AsksEveryQuestion ==
    (HandledInIdle /\ ReportsClarification(last.ri)) =>
        /\ ~last.raised
        /\ intent_analysis = json_loads(last.ri.text)
        /\ CallsTo("optimize") = {}
        /\ awaiting_clarification
        /\ last.needs_clarification
        /\ last.response =
               <<"To optimize your prompt, I need a bit more information", COLON, NL, NL>>
               \o Bullets(DictGet(intent_analysis.v, KeyQuestions, PyList(<<>>)).v)
        /\ last.appended = <<Message("assistant", last.response)>>

W6_TwoBullets ==
    /\ HandledInIdle
    /\ awaiting_clarification
    /\ Len(DictGet(intent_analysis.v, KeyQuestions, PyList(<<>>)).v) = 2
    /\ Cardinality({i \in 1..Len(last.response) : last.response[i] = "- "}) = 2

\* C7: when the intent request ends in a service failure, a response without
\* text, or text that does not parse, the analysis is the default that does
\* not ask (no question), the turn does not enter AwaitingClarification, and
\* the synthesis request follows in the same turn.
IntentRequestFailed ==
    /\ last.op = "message"
    /\ CallsTo("intent") # {}
    /\ \/ last.ri.kind \in {"error", "notext"}
       \/ last.ri.kind = "text" /\ json_loads(last.ri.text) = JSONDecodeError

C7_FailedAnalysisDoesNotAsk ==
    IntentRequestFailed =>
        /\ Len(last.calls) = 2
        /\ last.calls[1].stage = "intent"
        /\ last.calls[2].stage = "optimize"
        /\ ~last.needs_clarification
        /\ ~last.awaiting0 => ~awaiting_clarification
        /\ (~last.raised) =>
               /\ DictGet(last.intent_analysis.v, KeyNeeds, PyNone) = PyBool(FALSE)
               /\ DictGet(last.intent_analysis.v, KeyQuestions, PyNone) = PyList(<<>>)
               /\ StartsWith(last.response, OptimizedHeader)

W7_ServiceFailureThenSynthesis ==
    /\ IntentRequestFailed
    /\ HandledInIdle
    /\ last.ri = ServiceError
    /\ ~last.raised
    /\ ~awaiting_clarification

\* C8: in prompt synthesis, a response text that is a valid payload when
\* parsed verbatim is returned as exactly that payload, also when its string
\* fields contain fences or the phrase "optimized prompt".
C8_VerbatimPayloadWins ==
    (last.op = "extract" /\ json_loads(raw).k = "dict") => payload = json_loads(raw)

\* the places where raw wraps a payload in a fenced block labeled json:
\* <<i, j>> when the opening fence is the i-th lexeme, the closing one the
\* j-th, and what lies between the label and the closing fence is a payload
LabeledBlocks ==
    {b \in (1..Len(raw)) \X (1..Len(raw)) :
        /\ b[1] + 1 < b[2]
        /\ raw[b[1]] = FENCE /\ raw[b[1] + 1] = JSONLABEL /\ raw[b[2]] = FENCE
        /\ json_loads(SubSeq(raw, b[1] + 2, b[2] - 1)).k = "dict"}

\* C9: in prompt synthesis, a response text that wraps a valid payload in a
\* fenced block labeled json yields the payload that parsing the block's
\* interior yields, wherever the fence sits, position 0 included.
C9_LabeledFenceRecovered ==
    last.op = "extract" =>
        \A b \in LabeledBlocks : payload = json_loads(SubSeq(raw, b[1] + 2, b[2] - 1))

\* C10: execute never raises; it issues exactly one request, returns the text
\* the response carries and None on a service failure or missing content,
\* leaves awaitingClarification, originalRequest, clarificationMap and the
\* stored analysis as they were, and on None nothing is appended to the
\* transcript.
C10_Step ==
    (last'.op = "execute" /\ show_execute_button) =>
        /\ ~last'.raised
        /\ last'.calls = <<ExecuteCall(last_optimized_prompt)>>
        /\ last'.rs.kind = "text" => last'.result = PyStr(last'.rs.text)
        /\ last'.rs.kind \in {"error", "notext"} => last'.result = PyNone
        /\ last'.result = PyNone => messages' = messages
        /\ UNCHANGED <<awaiting_clarification, original_request,
                       clarification_responses, intent_analysis>>

C10_ExecuteAbsorbsFailures == [][C10_Step]_vars

W10_ExecuteGotNoText ==
    /\ last.op = "execute"
    /\ last.rs = NoTextContent
    /\ last.result = PyNone
    /\ last.appended = <<>>
    /\ messages # <<>>

\* the OptimizationResult of the turn that ran last
TurnResult == generate_optimized_prompt(last.rs)

\* C11: after every turn whose response is an optimized-prompt message, from
\* Idle or on completing a clarification round, lastOptimizedPrompt is the
\* optimizedPrompt of that turn's OptimizationResult and the execute action
\* is offered.
C11_LastPromptIsThisTurnsPrompt ==
    (/\ last.op = "message"
     /\ ~last.raised
     /\ StartsWith(last.response, OptimizedHeader)
     /\ HasKey(TurnResult.v, KeyPrompt)) =>
        /\ last_optimized_prompt = DictGet(TurnResult.v, KeyPrompt, PyNone).v
        /\ show_execute_button

\* the payloads a text wraps in a fenced block, labeled json or unlabeled
FencedPayloads(text) ==
    LET blocks == {b \in (1..Len(text)) \X (1..Len(text)) :
                      b[1] < b[2] /\ text[b[1]] = FENCE /\ text[b[2]] = FENCE}
        interior(b) ==
            IF b[1] + 1 < b[2] /\ text[b[1] + 1] = JSONLABEL
            THEN SubSeq(text, b[1] + 2, b[2] - 1)
            ELSE SubSeq(text, b[1] + 1, b[2] - 1)
    IN {json_loads(interior(b)) : b \in blocks} \ {JSONDecodeError}

\* C12: when the intent response is not a payload verbatim but wraps one in a
\* fenced block, labeled or unlabeled, analyze returns that payload; the
\* default that does not ask is returned only when verbatim and fenced
\* parsing have all failed.
C12_AnalyzerReadsFencedPayload ==
    (/\ last.op = "message"
     /\ CallsTo("intent") # {}
     /\ last.ri.kind = "text"
     /\ json_loads(last.ri.text) = JSONDecodeError) =>
        \A wrapped \in FencedPayloads(last.ri.text) : analyze_intent(last.ri) = wrapped

\* C13: when the synthesis call fails or its response has no text, in a turn
\* handled in Idle or in one completing a clarification round, the result is
\* the system-error fallback (not the generic one) and the assistant message
\* appended for the turn carries the warning marker prefix.
C13_SystemErrorIsMarked ==
    (/\ last.op = "message"
     /\ CallsTo("optimize") # {}
     /\ last.rs.kind \in {"error", "notext"}) =>
        /\ ~last.raised
        /\ TurnResult \in {ExceptionFallback, NoTextFallback}
        /\ TurnResult # GenericFallback
        /\ Len(last.appended) = 1
        /\ last.appended[1].role = "assistant"
        /\ last.appended[1].content = <<WarningMarker>> \o last.response
        /\ messages[Len(messages)] = last.appended[1]

\* C14: a user turn, in either state, issues at most one intent request and
\* then at most one synthesis request: never two of one stage, never a
\* synthesis request before the intent request, and nothing but these two.
C14_OneRequestPerStageInOrder ==
    last.op = "message" =>
        /\ Cardinality(CallsTo("intent")) <= 1
        /\ Cardinality(CallsTo("optimize")) <= 1
        /\ CallsTo("execute") = {}
        /\ \A i \in CallsTo("optimize"), j \in CallsTo("intent") : j < i
        /\ Len(last.calls) = Cardinality(CallsTo("intent")) + Cardinality(CallsTo("optimize"))

W14_AnalysisThenSynthesis ==
    /\ HandledInIdle
    /\ ~last.raised
    /\ Len(last.calls) = 2
    /\ last.calls[1].stage = "intent"
    /\ last.calls[2].stage = "optimize"

====
